---- MODULE Spec2Model ----
(***************************************************************************)
(* Model of the segment reader of value-log (src/segment/reader.rs).       *)
(*                                                                         *)
(* A Reader owns a buffered, forward-only handle on one sealed segment     *)
(* file and an is_terminated flag.  Iterator::next decodes one block per   *)
(* call.  The file is a sequence of bytes (0..255); the position of the    *)
(* BufReader is the number of bytes consumed so far.                       *)
(*                                                                         *)
(* Environment: the file is a regular, immutable file, so the only way a   *)
(* read fails is by running into the end of the file (UnexpectedEof).      *)
(***************************************************************************)
EXTENDS Integers, Sequences, FiniteSets, TLC

VARIABLES
    blocks,         \* the blocks the writer emitted, in order (input)
    cut,            \* number of bytes of the encoding that reached the disk
    file,           \* the bytes of the segment file
    pos,            \* Reader.inner: stream position of the BufReader
    is_terminated,  \* Reader.is_terminated
    hist,           \* one entry per call of next(): what it saw and returned
    reported,       \* the value the last get_offset() call returned
    pos2,           \* a second Reader opened on the same file: its position,
    is_terminated2, \*   its flag
    hist2           \*   and the calls of its next()

vars == <<blocks, cut, file, pos, is_terminated, hist, reported,
          pos2, is_terminated2, hist2>>

----------------------------------------------------------------------------
(* Bounds of the model *)

MaxBlocks == 3
MaxPulls == 5

\* files with long and with empty fields: number of blocks, and how many
\* bytes of the tail a torn write may have lost
MaxWideBlocks == 2
MaxTear == 20

NoOffset == 0 - 1

----------------------------------------------------------------------------
(* The wire format: the two magic tokens and the writer's encoding *)

BLOB_HEADER_MAGIC == <<86, 76, 71, 66, 76, 79, 66, 49>>

METADATA_HEADER_MAGIC == <<86, 76, 79, 71, 83, 77, 68, 49>>

\* a complete token that is neither of the two registered constants
BAD_MAGIC == <<86, 76, 71, 66, 76, 79, 66, 50>>

MagicLen == Len(BLOB_HEADER_MAGIC)

BE16(n) == <<(n \div 256) % 256, n % 256>>

BE32(n) == <<(n \div 16777216) % 256, (n \div 65536) % 256, (n \div 256) % 256, n % 256>>

RecordBlock(k, v, c) == [tag |-> "record", key |-> k, val |-> v, crc |-> c]

FooterBlock == [tag |-> "footer", key |-> <<>>, val |-> <<>>, crc |-> 0]

BadBlock == [tag |-> "bad", key |-> <<>>, val |-> <<>>, crc |-> 0]

\* record("a","1",crc=0xAAAA), record("bb","22",crc=0xBBBB) and a record
\* with an empty key
RecA == RecordBlock(<<97>>, <<49>>, 43690)

RecB == RecordBlock(<<98, 98>>, <<50, 50>>, 48059)

RecZ == RecordBlock(<<>>, <<49>>, 16909060)

Blocks == {RecA, RecB, RecZ, FooterBlock, BadBlock}

EncodeBlock(b) ==
    IF b.tag = "record"
    THEN BLOB_HEADER_MAGIC \o BE32(b.crc) \o BE16(Len(b.key)) \o b.key
            \o BE32(Len(b.val)) \o b.val
    ELSE IF b.tag = "footer" THEN METADATA_HEADER_MAGIC
    ELSE BAD_MAGIC

RECURSIVE EncodeBlocks(_)
EncodeBlocks(bs) ==
    IF bs = <<>> THEN <<>>
    ELSE EncodeBlock(Head(bs)) \o EncodeBlocks(Tail(bs))

BlockSeqs == UNION {[1..n -> Blocks] : n \in 0..MaxBlocks}

Fill(n, b) == [i \in 1..n |-> b]

\* a record with an empty value, a record with both fields empty, and a
\* record whose key length and value length do not fit in one byte
RecV == RecordBlock(<<97>>, <<>>, 43690)

RecE == RecordBlock(<<>>, <<>>, 48059)

RecBig == RecordBlock(Fill(256, 107), Fill(257, 118), 16909060)

WideBlocks == {RecA, RecZ, RecV, RecE, RecBig, FooterBlock, BadBlock}

WideBlockSeqs == UNION {[1..n -> WideBlocks] : n \in 0..MaxWideBlocks}

----------------------------------------------------------------------------
(* The reader *)

None == [kind |-> "None", key |-> <<>>, val |-> <<>>, crc |-> 0, err |-> ""]

Item(k, v, c) == [kind |-> "Item", key |-> k, val |-> v, crc |-> c, err |-> ""]

Err(e) == [kind |-> "Err", key |-> <<>>, val |-> <<>>, crc |-> 0, err |-> e]

IoUnexpectedEof == "Io(UnexpectedEof)"

InvalidHeader == "Deserialize(InvalidHeader(Blob))"

\* An off-by-one end-of-file test: a read that ends exactly at the end of
\* the file is taken for a short read.
ReadExact_strict(f, p, n) ==
    IF p + n < Len(f)
    THEN [ok |-> TRUE, buf |-> SubSeq(f, p + 1, p + n), pos |-> p + n]
    ELSE [ok |-> FALSE, buf |-> <<>>, pos |-> Len(f)]

\* a short read moves the position by the full length asked for
ReadExact_overrun(f, p, n) ==
    IF p + n <= Len(f)
    THEN [ok |-> TRUE, buf |-> SubSeq(f, p + 1, p + n), pos |-> p + n]
    ELSE [ok |-> FALSE, buf |-> <<>>, pos |-> p + n]

\* a read of no bytes at the end of the file is taken for end of file
ReadExact_eof0(f, p, n) ==
    IF p + n <= Len(f) /\ ~(n = 0 /\ p = Len(f))
    THEN [ok |-> TRUE, buf |-> SubSeq(f, p + 1, p + n), pos |-> p + n]
    ELSE [ok |-> FALSE, buf |-> <<>>, pos |-> Len(f)]

\* BufReader::read_exact: n bytes from position p, or UnexpectedEof when
\* fewer than n bytes remain; the failed read has consumed what was left.
ReadExact(f, p, n) ==
    IF p + n <= Len(f)
    THEN [ok |-> TRUE, buf |-> SubSeq(f, p + 1, p + n), pos |-> p + n]
    ELSE [ok |-> FALSE, buf |-> <<>>, pos |-> Len(f)]

\* little-endian instead of big-endian
U32BE_le(b) == b[4] * 16777216 + b[3] * 65536 + b[2] * 256 + b[1]

U32BE(b) == b[1] * 16777216 + b[2] * 65536 + b[3] * 256 + b[4]

\* little-endian instead of big-endian
U16BE_le(b) == b[2] * 256 + b[1]

U16BE(b) == b[1] * 256 + b[2]

\* the check for the record magic is missing
ClassifyMagic_nocheck(buf) ==
    IF buf = METADATA_HEADER_MAGIC THEN "footer" ELSE "blob"

\* the footer magic is not recognised
ClassifyMagic_nofooter(buf) ==
    IF buf # BLOB_HEADER_MAGIC THEN "invalid" ELSE "blob"

ClassifyMagic(buf) ==
    IF buf = METADATA_HEADER_MAGIC THEN "footer"
    ELSE IF buf # BLOB_HEADER_MAGIC THEN "invalid"
    ELSE "blob"

\* every "no more items" sets the flag, not only the footer
Ret_flag_on_none(r, p, t) ==
    [res |-> r, pos |-> p, is_terminated |-> (t \/ r = None)]

\* an invalid header seeks back to the start of the bad token
Ret_rewind(r, p, t) ==
    [res |-> r,
     pos |-> IF r = Err(InvalidHeader) THEN p - MagicLen ELSE p,
     is_terminated |-> t]

Ret(r, p, t) == [res |-> r, pos |-> p, is_terminated |-> t]

\* Iterator::next of the Reader at position p of file f with flag t
next(f, p, t) ==
    IF t THEN Ret(None, p, t)
    ELSE
    LET magic == ReadExact(f, p, MagicLen) IN
    IF ~magic.ok THEN Ret(Err(IoUnexpectedEof), magic.pos, t)
    ELSE IF ClassifyMagic(magic.buf) = "footer" THEN Ret(None, magic.pos, TRUE)
    ELSE IF ClassifyMagic(magic.buf) = "invalid" THEN Ret(Err(InvalidHeader), magic.pos, t)
    ELSE
    LET crc == ReadExact(f, magic.pos, 4) IN
    IF ~crc.ok THEN Ret(None, crc.pos, t)
    ELSE
    LET key_len == ReadExact(f, crc.pos, 2) IN
    IF ~key_len.ok THEN Ret(None, key_len.pos, t)
    ELSE
    LET key == ReadExact(f, key_len.pos, U16BE(key_len.buf)) IN
    IF ~key.ok THEN Ret(Err(IoUnexpectedEof), key.pos, t)
    ELSE
    LET val_len == ReadExact(f, key.pos, 4) IN
    IF ~val_len.ok THEN Ret(None, val_len.pos, t)
    ELSE
    LET val == ReadExact(f, val_len.pos, U32BE(val_len.buf)) IN
    IF ~val.ok THEN Ret(Err(IoUnexpectedEof), val.pos, t)
    ELSE Ret(Item(key.buf, val.buf, U32BE(crc.buf)), val.pos, t)

\* the position of the underlying file, which the BufReader has read ahead
get_offset_physical(f, p) == Len(f)

\* Reader::get_offset: the stream position of the BufReader
get_offset(f, p) == p

\* the query goes to the underlying file and the Reader continues from the
\* position of that file, past what the BufReader had read ahead
inner_after_query_physical(f, p) == Len(f)

\* the position of the BufReader after stream_position(): it is not moved
inner_after_query(f, p) == p

\* one handle shared by the Readers: a Reader continues where the other is
OwnCursor_shared(own, other) == other

\* File::open gives every Reader a handle of its own, with its own position
OwnCursor(own, other) == own

\* what one call of next() leaves in the history of its Reader
Call(f, p, t, r) ==
    [pre |-> get_offset(f, p),
     term_pre |-> t,
     res |-> r.res,
     post |-> get_offset(f, r.pos),
     term_post |-> r.is_terminated]

----------------------------------------------------------------------------
(* The state machine *)

\* Reader::new on a segment of which the first cut bytes are on disk
Init ==
    /\ blocks \in BlockSeqs
    /\ cut \in 0..Len(EncodeBlocks(blocks))
    /\ file = SubSeq(EncodeBlocks(blocks), 1, cut)
    /\ pos = 0
    /\ is_terminated = FALSE
    /\ hist = <<>>
    /\ reported = NoOffset
    /\ pos2 = 0
    /\ is_terminated2 = FALSE
    /\ hist2 = <<>>

\* one call of next(), with the offsets a caller sees before and after it
Pull ==
    /\ Len(hist) < MaxPulls
    /\ LET p == OwnCursor(pos, pos2)
           r == next(file, p, is_terminated)
       IN
        /\ pos' = r.pos
        /\ is_terminated' = r.is_terminated
        /\ hist' = Append(hist, Call(file, p, is_terminated, r))
    /\ UNCHANGED <<blocks, cut, file, reported, pos2, is_terminated2, hist2>>

\* one call of get_offset()
GetOffset ==
    /\ reported' = get_offset(file, pos)
    /\ pos' = inner_after_query(file, pos)
    /\ UNCHANGED <<blocks, cut, file, is_terminated, hist,
                   pos2, is_terminated2, hist2>>

\* one call of next() on the second Reader
Pull2 ==
    /\ Len(hist2) < MaxPulls
    /\ LET p == OwnCursor(pos2, pos)
           r == next(file, p, is_terminated2)
       IN
        /\ pos2' = r.pos
        /\ is_terminated2' = r.is_terminated
        /\ hist2' = Append(hist2, Call(file, p, is_terminated2, r))
    /\ UNCHANGED <<blocks, cut, file, reported, pos, is_terminated, hist>>

Next == Pull \/ GetOffset

Spec == Init /\ [][Next]_vars

\* Reader::new on a segment with long or empty fields, torn near its end
InitWide ==
    /\ blocks \in WideBlockSeqs
    /\ cut \in {c \in 0..Len(EncodeBlocks(blocks)) :
                    Len(EncodeBlocks(blocks)) - c <= MaxTear}
    /\ file = SubSeq(EncodeBlocks(blocks), 1, cut)
    /\ pos = 0
    /\ is_terminated = FALSE
    /\ hist = <<>>
    /\ reported = NoOffset
    /\ pos2 = 0
    /\ is_terminated2 = FALSE
    /\ hist2 = <<>>

SpecWide == InitWide /\ [][Next]_vars

\* two Readers on one file, their pulls interleaved in any order
NextConc == Pull \/ Pull2

SpecConc == Init /\ [][NextConc]_vars

----------------------------------------------------------------------------
(* Vocabulary of the properties *)

Pulls == 1..Len(hist)

RecordSize(k, v) == MagicLen + 4 + 2 + Len(k) + 4 + Len(v)

\* offset of the first byte of block i in the writer's encoding
BlockStart(i) == Len(EncodeBlocks(SubSeq(blocks, 1, i - 1)))

\* record blocks followed by one footer block
ValidLayout ==
    /\ Len(blocks) >= 1
    /\ blocks[Len(blocks)].tag = "footer"
    /\ \A j \in 1..(Len(blocks) - 1) : blocks[j].tag = "record"

Untruncated == cut = Len(EncodeBlocks(blocks))

ItemOf(b) == Item(b.key, b.val, b.crc)

\* the bytes a pull that starts at offset p finds in the file
Remaining(p) == Len(file) - p

\* the n bytes at offset p of the file, empty when they are not all there
BytesAt(p, n) == IF p + n <= Len(file) THEN SubSeq(file, p + 1, p + n) ELSE <<>>

FullMagicAt(p) == Remaining(p) >= MagicLen

\* pull i started in state Reading and read a complete RECORD_MAGIC
ReadsRecordMagic(i) ==
    /\ ~hist[i].term_pre
    /\ FullMagicAt(hist[i].pre)
    /\ BytesAt(hist[i].pre, MagicLen) = BLOB_HEADER_MAGIC

\* declared key length of the block pull i decodes (its length field is present)
DeclaredKeyLen(i) ==
    LET b == BytesAt(hist[i].pre + MagicLen + 4, 2) IN b[1] * 256 + b[2]

\* declared value length, given that the key and the length field are present
DeclaredValLen(i) ==
    LET b == BytesAt(hist[i].pre + MagicLen + 4 + 2 + DeclaredKeyLen(i), 4)
    IN  b[1] * 16777216 + b[2] * 65536 + b[3] * 256 + b[4]

ShortInCrc(i) == ReadsRecordMagic(i) /\ Remaining(hist[i].pre) < MagicLen + 4

ShortInKeyLen(i) ==
    /\ ReadsRecordMagic(i)
    /\ Remaining(hist[i].pre) >= MagicLen + 4
    /\ Remaining(hist[i].pre) < MagicLen + 4 + 2

ShortInKey(i) ==
    /\ ReadsRecordMagic(i)
    /\ Remaining(hist[i].pre) >= MagicLen + 4 + 2
    /\ Remaining(hist[i].pre) < MagicLen + 4 + 2 + DeclaredKeyLen(i)

ShortInValLen(i) ==
    /\ ReadsRecordMagic(i)
    /\ Remaining(hist[i].pre) >= MagicLen + 4 + 2
    /\ Remaining(hist[i].pre) >= MagicLen + 4 + 2 + DeclaredKeyLen(i)
    /\ Remaining(hist[i].pre) < MagicLen + 4 + 2 + DeclaredKeyLen(i) + 4

ShortInVal(i) ==
    /\ ReadsRecordMagic(i)
    /\ Remaining(hist[i].pre) >= MagicLen + 4 + 2
    /\ Remaining(hist[i].pre) >= MagicLen + 4 + 2 + DeclaredKeyLen(i) + 4
    /\ Remaining(hist[i].pre)
          < MagicLen + 4 + 2 + DeclaredKeyLen(i) + 4 + DeclaredValLen(i)

RECURSIVE SizeOfItems(_)
\* cumulative encoded size of the records the first n pulls yielded
SizeOfItems(n) ==
    IF n = 0 THEN 0
    ELSE SizeOfItems(n - 1) + RecordSize(hist[n].res.key, hist[n].res.val)

----------------------------------------------------------------------------
(* C1 .. C10 *)

\* C1 (idempotent termination): once a pull has returned "no more items",
\* every later pull on the Reader returns "no more items", raises no error
\* and leaves the cursor offset where it was.
C1_IdempotentTermination ==
    \A i \in Pulls : \A j \in Pulls :
        (i < j /\ hist[i].res.kind = "None")
            => (hist[j].res = None /\ hist[j].post = hist[j].pre)

\* C2 (truncation tolerance): a valid file truncated strictly inside record
\* block k, after that block's magic, yields the k-1 preceding records in
\* order, reports "no more items" at the truncated block, and no pull
\* reports an error.
C2_TruncationTolerance ==
    \A k \in 1..(Len(blocks) - 1) :
        (/\ ValidLayout
         /\ cut >= BlockStart(k) + MagicLen
         /\ cut < BlockStart(k + 1))
        => \A i \in Pulls :
              /\ i < k => hist[i].res = ItemOf(blocks[i])
              /\ i = k => hist[i].res = None
              /\ hist[i].res.kind # "Err"

\* C3 (short read at the leading magic): a pull in state Reading that finds
\* fewer bytes than the magic width terminates the Reader and reports
\* "no more items", not an error.
C3_ShortMagicIsCleanEnd ==
    \A i \in Pulls :
        (~hist[i].term_pre /\ ~FullMagicAt(hist[i].pre))
            => (hist[i].res = None /\ hist[i].term_post)

\* C4 (round trip): the untruncated encoding of a list of records followed
\* by a footer decodes to exactly that list, in order, with identical keys,
\* values and checksums, and then signals exhaustion without an error.
C4_RoundTrip ==
    (ValidLayout /\ Untruncated)
        => \A i \in Pulls :
              /\ i < Len(blocks) => hist[i].res = ItemOf(blocks[i])
              /\ i >= Len(blocks) => hist[i].res = None

C4_Witness ==
    /\ ValidLayout /\ Untruncated
    /\ Len(blocks) = 3
    /\ blocks[1] # blocks[2]
    /\ Len(hist) = 4
    /\ hist[2].res.kind = "Item"
    /\ hist[4].res = None

\* C5 (corruption detection): a pull in state Reading that fully reads a
\* magic token equal to neither constant reports the invalid-header error
\* and leaves the Reader in state Reading.
C5_CorruptionDetection ==
    \A i \in Pulls :
        (/\ ~hist[i].term_pre
         /\ FullMagicAt(hist[i].pre)
         /\ BytesAt(hist[i].pre, MagicLen) # BLOB_HEADER_MAGIC
         /\ BytesAt(hist[i].pre, MagicLen) # METADATA_HEADER_MAGIC)
        => (hist[i].res = Err(InvalidHeader) /\ ~hist[i].term_post)

C5_Witness ==
    /\ Len(hist) = 2
    /\ hist[1].res.kind = "Item"
    /\ BytesAt(hist[2].pre, MagicLen) = BAD_MAGIC
    /\ hist[2].res = Err(InvalidHeader)
    /\ ~is_terminated

\* C6 (footer detection): a pull in state Reading that fully reads the
\* footer magic terminates the Reader, reports "no more items" and leaves
\* the cursor at the first byte after the magic; on a file that is only the
\* footer magic the first pull yields nothing and the offset is the length
\* of the footer magic.
C6_FooterDetection ==
    /\ \A i \in Pulls :
          (/\ ~hist[i].term_pre
           /\ FullMagicAt(hist[i].pre)
           /\ BytesAt(hist[i].pre, MagicLen) = METADATA_HEADER_MAGIC)
          => (/\ hist[i].res = None
              /\ hist[i].term_post
              /\ hist[i].post = hist[i].pre + MagicLen)
    /\ (file = METADATA_HEADER_MAGIC /\ Len(hist) >= 1)
          => (/\ hist[1].res = None
              /\ hist[1].post = Len(METADATA_HEADER_MAGIC)
              /\ (Len(hist) = 1 => reported \in {NoOffset, 0, Len(METADATA_HEADER_MAGIC)}))

\* a footer found after a record and followed by more bytes
C6_Witness ==
    /\ Len(hist) = 2
    /\ hist[1].res.kind = "Item"
    /\ BytesAt(hist[2].pre, MagicLen) = METADATA_HEADER_MAGIC
    /\ is_terminated
    /\ pos = hist[2].pre + MagicLen
    /\ pos < Len(file)
    /\ reported = pos

\* C7 (offset correctness): after N pulls that each yielded a record, the
\* cursor offset is the cumulative encoded size of those N records.
C7_OffsetCorrectness ==
    \A n \in Pulls :
        (\A i \in 1..n : hist[i].res.kind = "Item")
            => hist[n].post = SizeOfItems(n)

C7_Witness ==
    /\ Len(hist) = 2
    /\ \A i \in 1..2 : hist[i].res.kind = "Item"
    /\ hist[1].res.key # hist[2].res.key
    /\ pos = SizeOfItems(2)
    /\ pos < Len(file)

\* the file of the example scenario
ExampleScenario ==
    /\ blocks = <<RecA, RecB, FooterBlock>>
    /\ Untruncated

\* C8 as stated: in the example scenario the pulls yield ("a","1",0xAAAA),
\* ("bb","22",0xBBBB) and then exhaustion, and the cursor offset at
\* exhaustion is the combined encoded length of the two record blocks.
C8_ExampleAsStated ==
    (ExampleScenario /\ Len(hist) >= 3)
        => /\ hist[1].res = Item(<<97>>, <<49>>, 43690)
           /\ hist[2].res = Item(<<98, 98>>, <<50, 50>>, 48059)
           /\ hist[3].res = None
           /\ hist[3].post = (MagicLen + 4 + 2 + 1 + 4 + 1)
                                + (MagicLen + 4 + 2 + 2 + 4 + 2)

\* C8 (amended): as above, but the cursor offset at exhaustion is the
\* combined encoded length of the two record blocks plus the width of the
\* footer magic, which the terminating pull has consumed.
C8_Example ==
    (ExampleScenario /\ Len(hist) >= 3)
        => /\ hist[1].res = Item(<<97>>, <<49>>, 43690)
           /\ hist[2].res = Item(<<98, 98>>, <<50, 50>>, 48059)
           /\ hist[3].res = None
           /\ hist[3].post = (MagicLen + 4 + 2 + 1 + 4 + 1)
                                + (MagicLen + 4 + 2 + 2 + 4 + 2) + MagicLen

C8_Witness ==
    /\ ExampleScenario
    /\ Len(hist) = 3
    /\ is_terminated
    /\ hist[3].res = None
    /\ pos = 50

\* C9 (short read in a fixed-width field): after a fully read RECORD_MAGIC,
\* a file that ends before or within the checksum, the key length or the
\* value length makes the pull report "no more items" and leaves the Reader
\* Terminated.
C9_ShortFixedFieldTerminates ==
    \A i \in Pulls :
        (ShortInCrc(i) \/ ShortInKeyLen(i) \/ ShortInValLen(i))
            => (hist[i].res = None /\ hist[i].term_post)

\* C10 (short read in a key or value payload): after a fully read
\* RECORD_MAGIC, checksum and length field, a file holding fewer bytes than
\* the declared key or value length makes the pull a clean end: "no more
\* items", no error, Reader Terminated.
C10_ShortPayloadIsCleanEnd ==
    \A i \in Pulls :
        (ShortInKey(i) \/ ShortInVal(i))
            => (hist[i].res = None /\ hist[i].term_post)

----------------------------------------------------------------------------
(* C11 .. C18 *)

RECURSIVE Alone(_)
\* the Reader after n pulls when nothing else happens: no other Reader, no
\* cursor query
Alone(n) ==
    IF n = 0 THEN [pos |-> 0, is_terminated |-> FALSE, hist |-> <<>>]
    ELSE LET s == Alone(n - 1)
             r == next(file, s.pos, s.is_terminated)
         IN  [pos |-> r.pos,
              is_terminated |-> r.is_terminated,
              hist |-> Append(s.hist, Call(file, s.pos, s.is_terminated, r))]

\* C11 (independent concurrent readers): with the pulls of two Readers on
\* the same file interleaved in any order, each Reader has seen exactly the
\* results and offsets it would have seen running alone, and its position
\* and flag are those of running alone.
C11_IndependentReaders ==
    /\ hist = Alone(Len(hist)).hist
    /\ pos = Alone(Len(hist)).pos
    /\ is_terminated = Alone(Len(hist)).is_terminated
    /\ hist2 = Alone(Len(hist2)).hist
    /\ pos2 = Alone(Len(hist2)).pos
    /\ is_terminated2 = Alone(Len(hist2)).is_terminated

\* the two Readers are at different places of a file they both decode
C11_Witness ==
    /\ Len(hist) = 3
    /\ Len(hist2) = 1
    /\ hist[1].res.kind = "Item"
    /\ hist[2].res.kind = "Item"
    /\ hist2[1] = hist[1]
    /\ is_terminated
    /\ ~is_terminated2
    /\ pos2 < pos

ItemPulls == {i \in Pulls : hist[i].res.kind = "Item"}

\* the byte position immediately after the last fully decoded block, 0 when
\* no block has been decoded
AfterLastDecoded ==
    IF ItemPulls = {} THEN 0
    ELSE LET k == CHOOSE i \in ItemPulls : \A j \in ItemPulls : j <= i
         IN  hist[k].pre + RecordSize(hist[k].res.key, hist[k].res.val)

\* the cursor offset never decreases from one pull to the next
CursorMonotone ==
    /\ \A i \in Pulls : hist[i].pre <= hist[i].post
    /\ \A i \in Pulls : i > 1 => hist[i - 1].post <= hist[i].pre
    /\ Len(hist) > 0 => hist[Len(hist)].post <= get_offset(file, pos)

\* C12 as stated: between pulls the cursor offset is the byte position
\* immediately after the last fully decoded block (0 before any block is
\* decoded), and it never decreases from one pull to the next.
C12_CursorAsStated ==
    /\ get_offset(file, pos) = AfterLastDecoded
    /\ CursorMonotone

\* C12 (amended): between pulls the cursor offset never decreases and is
\* never before the end of the last fully decoded block; as long as every
\* pull so far has yielded a record it is exactly that position (0 before
\* any pull).
C12_CursorInvariant ==
    /\ CursorMonotone
    /\ get_offset(file, pos) >= AfterLastDecoded
    /\ (\A i \in Pulls : hist[i].res.kind = "Item")
          => get_offset(file, pos) = AfterLastDecoded

\* two records decoded, then a pull that consumed the footer magic
C12_Witness ==
    /\ Len(hist) = 3
    /\ ItemPulls = {1, 2}
    /\ hist[3].res = None
    /\ AfterLastDecoded > 0
    /\ pos = AfterLastDecoded + MagicLen

\* the checksum bytes of the block pull i decodes, read big-endian
DeclaredCrc(i) ==
    LET b == BytesAt(hist[i].pre + MagicLen, 4)
    IN  b[1] * 16777216 + b[2] * 65536 + b[3] * 256 + b[4]

\* pull i started in state Reading on a record block that is all there,
\* its lengths read big-endian
WholeBlock(i) ==
    /\ ReadsRecordMagic(i)
    /\ Remaining(hist[i].pre) >= MagicLen + 4 + 2
    /\ Remaining(hist[i].pre) >= MagicLen + 4 + 2 + DeclaredKeyLen(i) + 4
    /\ Remaining(hist[i].pre)
          >= MagicLen + 4 + 2 + DeclaredKeyLen(i) + 4 + DeclaredValLen(i)

KeyAt(i) == BytesAt(hist[i].pre + MagicLen + 4 + 2, DeclaredKeyLen(i))

ValAt(i) ==
    BytesAt(hist[i].pre + MagicLen + 4 + 2 + DeclaredKeyLen(i) + 4,
            DeclaredValLen(i))

\* C13 (big-endian field decoding): for every record block that is all
\* there, read with its three integer fields big-endian, the pull yields the
\* checksum b0*2^24 + b1*2^16 + b2*2^8 + b3, consumes k0*2^8 + k1 key bytes
\* and v0*2^24 + v1*2^16 + v2*2^8 + v3 value bytes; and a pull yields a
\* record only from such a block.
C13_BigEndianFields ==
    \A i \in Pulls :
        /\ WholeBlock(i) =>
              /\ hist[i].res.kind = "Item"
              /\ hist[i].res.crc = DeclaredCrc(i)
              /\ Len(hist[i].res.key) = DeclaredKeyLen(i)
              /\ Len(hist[i].res.val) = DeclaredValLen(i)
              /\ hist[i].post - hist[i].pre
                    = MagicLen + 4 + 2 + DeclaredKeyLen(i) + 4 + DeclaredValLen(i)
        /\ hist[i].res.kind = "Item" => WholeBlock(i)

\* a record decoded whose length fields have a non-zero high-order byte and
\* whose checksum bytes are all different
C13_Witness ==
    \E i \in Pulls :
        /\ hist[i].res.kind = "Item"
        /\ BytesAt(hist[i].pre + MagicLen, 4) = <<1, 2, 3, 4>>
        /\ BytesAt(hist[i].pre + MagicLen + 4, 2) = <<1, 0>>
        /\ Len(hist[i].res.key) = 256
        /\ Len(hist[i].res.val) = 257
        /\ hist[i].res.crc = 16909060

\* C14 (zero-length fields are records): a record block that is all there
\* and has key length 0 and/or value length 0 is yielded as a record with
\* that empty key and/or value and the stored checksum, the Reader stays in
\* Reading, and the cursor advances by magic width + 10 + key length + value
\* length; also when the block is the last bytes of the file.
C14_ZeroLengthFields ==
    \A i \in Pulls :
        (WholeBlock(i) /\ (DeclaredKeyLen(i) = 0 \/ DeclaredValLen(i) = 0))
            => /\ hist[i].res = Item(KeyAt(i), ValAt(i), DeclaredCrc(i))
               /\ DeclaredKeyLen(i) = 0 => hist[i].res.key = <<>>
               /\ DeclaredValLen(i) = 0 => hist[i].res.val = <<>>
               /\ ~hist[i].term_post
               /\ hist[i].post = hist[i].pre + MagicLen + 10
                                    + DeclaredKeyLen(i) + DeclaredValLen(i)

\* a record with an empty value, then a record with both fields empty that
\* is the last bytes of the file
C14_Witness ==
    /\ Len(hist) = 2
    /\ hist[1].res = ItemOf(RecV)
    /\ hist[2].res = ItemOf(RecE)
    /\ pos = Len(file)
    /\ ~is_terminated

\* the flag seen before each pull is the flag the pull before it left
FlagChain ==
    /\ Len(hist) > 0 => ~hist[1].term_pre
    /\ \A i \in Pulls : i > 1 => hist[i].term_pre = hist[i - 1].term_post
    /\ Len(hist) > 0 => is_terminated = hist[Len(hist)].term_post

\* pull i read a complete footer magic where a leading magic is expected
ReadsFooterMagic(i) ==
    /\ ~hist[i].term_pre
    /\ FullMagicAt(hist[i].pre)
    /\ BytesAt(hist[i].pre, MagicLen) = METADATA_HEADER_MAGIC

\* C15 (terminated flag): the flag is false at construction, is set only by
\* a pull that fully reads the footer magic, and is never cleared; whenever
\* it is true, an earlier pull read a complete footer magic where a block's
\* leading magic is expected.
C15_TerminatedOnlyByFooter ==
    /\ hist = <<>> => ~is_terminated
    /\ FlagChain
    /\ \A i \in Pulls : hist[i].term_pre => hist[i].term_post
    /\ \A i \in Pulls : (~hist[i].term_pre /\ hist[i].term_post) => ReadsFooterMagic(i)
    /\ is_terminated => \E i \in Pulls : ReadsFooterMagic(i)

\* a record, then the footer magic sets the flag, and a later pull keeps it
C15_Witness ==
    /\ Len(hist) = 3
    /\ hist[1].res.kind = "Item"
    /\ ReadsFooterMagic(2)
    /\ hist[3].term_pre
    /\ hist[3].res = None
    /\ is_terminated

\* what a pull in state Reading at offset p returns, read off the bytes
ExpectedAt(i) ==
    IF ~FullMagicAt(hist[i].pre) THEN Err(IoUnexpectedEof)
    ELSE IF BytesAt(hist[i].pre, MagicLen) = METADATA_HEADER_MAGIC THEN None
    ELSE IF BytesAt(hist[i].pre, MagicLen) # BLOB_HEADER_MAGIC THEN Err(InvalidHeader)
    ELSE IF WholeBlock(i) THEN Item(KeyAt(i), ValAt(i), DeclaredCrc(i))
    ELSE IF ShortInKey(i) \/ ShortInVal(i) THEN Err(IoUnexpectedEof)
    ELSE None

\* C16 (no resynchronisation after an invalid header): a pull that reports
\* the invalid-header error has consumed exactly the bad token; the next
\* pull starts right after it and treats the bytes there as a leading magic.
C16_InvalidHeaderConsumesToken ==
    \A i \in Pulls :
        hist[i].res = Err(InvalidHeader)
            => /\ hist[i].post = hist[i].pre + MagicLen
               /\ ~hist[i].term_post
               /\ (i + 1) \in Pulls
                     => /\ hist[i + 1].pre = hist[i].pre + MagicLen
                        /\ hist[i + 1].res = ExpectedAt(i + 1)

\* a record decoded right after a bad token
C16_Witness ==
    /\ Len(hist) = 2
    /\ hist[1].res = Err(InvalidHeader)
    /\ hist[2].pre = MagicLen
    /\ hist[2].res.kind = "Item"

\* C17 (finite sequence): every pull that yields a record advances the
\* cursor by at least magic width + 10, the cursor never exceeds the file
\* length, so at most floor(file length / (magic width + 10)) records are
\* yielded and a caller who has pulled more often than that has received a
\* result that is not a record.
C17_FiniteSequence ==
    /\ \A i \in ItemPulls : hist[i].post - hist[i].pre >= MagicLen + 10
    /\ get_offset(file, pos) <= Len(file)
    /\ Cardinality(ItemPulls) <= Len(file) \div (MagicLen + 10)
    /\ Len(hist) > Len(file) \div (MagicLen + 10)
          => \E i \in Pulls : hist[i].res.kind # "Item"

\* as many records as the file length allows, then a result that is none
C17_Witness ==
    /\ Len(hist) = 4
    /\ ItemPulls = {1, 2, 3}
    /\ Len(file) \div (MagicLen + 10) = 3
    /\ hist[4].res.kind # "Item"

\* C18 (the cursor query is read-only): with any number of cursor queries
\* between the pulls, in either state, the pull results and offsets, the
\* read position and the flag are those of the run without queries, and
\* every query reported the offset the Reader was at.
C18_QueryIsReadOnly ==
    /\ hist = Alone(Len(hist)).hist
    /\ pos = Alone(Len(hist)).pos
    /\ is_terminated = Alone(Len(hist)).is_terminated
    /\ reported \in {NoOffset, 0} \cup {hist[i].post : i \in Pulls}

\* a query between two pulls that both yielded a record, and pulls after it
\* up to the footer
C18_Witness ==
    /\ Len(hist) = 3
    /\ hist[1].res.kind = "Item"
    /\ hist[2].res.kind = "Item"
    /\ reported = hist[1].post
    /\ is_terminated
    /\ pos > hist[2].post

====
